---- MODULE Spec2Model ----
(***************************************************************************)
(* A model of cxstructs::vec<T> (src/src/datastructures/vec.h): a dynamic  *)
(* array with manual storage management and a grow / shrink policy.        *)
(*                                                                         *)
(* Integers.  size_, len_ and minlen_ are uint_32_cx (uint_fast32_t,       *)
(* cxconfig.h:51): arithmetic modulo 2^w, w >= 32.  A residue r of that    *)
(* arithmetic is written here as the integer nearest to zero that is       *)
(* congruent to it: r itself when r is small, r - 2^w when r is within a   *)
(* few units of 2^w (the value a decrement of 0 leaves).  Addition and     *)
(* subtraction of this representation are the plain integer ones, the      *)
(* order of the unsigned values is ULess, and the value read as a signed   *)
(* integer of the same width (int_32_cx) is the representation itself.     *)
(*                                                                         *)
(* Storage.  arr_ is either the null pointer or a block of memory that     *)
(* new T[n] returned: a sequence of n slots.  A slot that was never        *)
(* written holds an indeterminate value (Indet): comparing it with a value *)
(* can go either way.                                                      *)
(*                                                                         *)
(* Undefined behaviour.  A read or a write outside the block and a call of *)
(* std::move with an inverted range are undefined behaviour.  The call     *)
(* that executes one ends in a state with status = "ub": its fields are    *)
(* what the statements of the call compute (a read outside the block       *)
(* yields an indeterminate value, a write outside the block changes no     *)
(* slot of the block, an inverted range moves nothing).  Whatever the      *)
(* build does next -- go on with a corrupted heap, or be killed -- is not  *)
(* followed: no call is made in a state with status = "ub".                *)
(***************************************************************************)
EXTENDS Integers, Sequences, FiniteSets, TLC

\* ---------------------------------------------------------------- bounds
\* Element values are 1..MaxVal.
MaxVal == 2
\* vec(n) is constructed with n in 0..MaxCap.
MaxCap == 2
\* add and append are not called once size_ has reached MaxSize.
MaxSize == 3
\* list2, the argument of append and of the assignments, is filled with at
\* most MaxOther calls of add.
MaxOther == 2
\* The scripted driver calls add MaxAdds times and then remove as often.
MaxAdds == 500
\* SpecOwn allocates at most MaxBlocks storage blocks.
MaxBlocks == 5
\* SpecList calls new Node at most MaxNodes times.
MaxNodes == 4
\* The arrays searched have at most MaxLen elements,
MaxLen == 5
\* which are keys in 1..MaxKey.
MaxKey == 3
\* The adjacency matrices traversed have at most MaxOrder rows.
MaxOrder == 3
\* The capacity policy driver makes at most MaxCalls calls.
MaxCalls == 6

\* ------------------------------------------------------ program constants
\* vec(uint_32_cx n_elem = 64)
DefaultCap == 64
\* clear(): len_ = 32
ClearCap == 32
\* grow()/shrink(): size_ / 6 < 64 ? 0 : size_ / 6
MinShrink == 64
\* the divisor of that expression
ShrinkDiv == 6

Values == 1..MaxVal
\* The content of a slot of new T[n] that was never assigned, and of
\* memory outside the block.
Indet == -1
Inst == {1, 2}

VARIABLES vecs, status, call, script, n_added, n_removed

\* The storage blocks of the program and the vec that points at each: the
\* state of SpecOwn, which follows new[] and delete[] through the members.
VARIABLES ptr, alive, blocks

\* A LinkedList<T> (src/src/datastructures/LinkedList.h), the nodes that
\* new Node has returned, how the last call on the list ended, that call,
\* and whether the build defines NDEBUG: the state of SpecList.
VARIABLES lst, lst2, heap, lstatus, lcall, ndebug

\* The array, the target and the length given to the two binary searches
\* (src/include/cxalgo/Search.h) and how far each has run: the state of
\* SpecSearch.
VARIABLES arr, target, len, bs, rs

\* The adjacency matrix and the start node given to depth_first_search
\* (src/include/cxalgos/GraphTraversal.h) and what it returned: the state
\* of SpecDfs.
VARIABLES mat, nodeIndex, dfs

\* What the last call of the capacity policy driver did to the capacity
\* of list1: "grew", "shrank" or "no" (SpecHyst).
VARIABLES resized

vecvars == <<vecs, status, call, script, n_added, n_removed>>

ownvars == <<ptr, alive, blocks>>

listvars == <<lst, lst2, heap, lstatus, lcall, ndebug>>

searchvars == <<arr, target, len, bs, rs>>

dfsvars == <<mat, nodeIndex, dfs>>

hystvars == <<resized>>

\* What the calls on list1 and list2 leave alone.
others == <<ownvars, listvars, searchvars, dfsvars, hystvars>>

\* What the members followed by SpecOwn leave alone.
notown == <<vecvars, listvars, searchvars, dfsvars, hystvars>>

\* What the calls on the LinkedList leave alone.
notlist == <<vecvars, ownvars, searchvars, dfsvars, hystvars>>

\* What the binary searches leave alone.
notsearch == <<vecvars, ownvars, listvars, dfsvars, hystvars>>

\* What depth_first_search leaves alone.
notdfs == <<vecvars, ownvars, listvars, searchvars, hystvars>>

\* What the capacity policy driver leaves alone besides list1.
nothyst == <<ownvars, listvars, searchvars, dfsvars>>

vars == <<vecvars, others>>

\* ------------------------------------------------------------- integers
\* a < b for two uint_32_cx values (see the header comment).
ULess(a, b) == IF (a < 0) = (b < 0) THEN a < b ELSE b < 0

\* len_ *= 1.5 : converted to double, multiplied, truncated back.
MulOneAndHalf(n) == (n * 3) \div 2

\* x / 6 < 64 ? 0 : x / 6
MinLenOf(x) == IF (x \div ShrinkDiv) < MinShrink THEN 0 ELSE x \div ShrinkDiv

\* -------------------------------------------------------------- storage
NullPtr == [null |-> TRUE, mem |-> <<>>]

\* new T[n]
NewArr(n) == [null |-> FALSE, mem |-> [i \in 1..n |-> Indet]]

Alloc(b) == Len(b.mem)

InBlock(b, i) == (~b.null) /\ 0 <= i /\ i < Len(b.mem)

\* arr_[i] as an rvalue
Load(b, i) == IF InBlock(b, i) THEN b.mem[i + 1] ELSE Indet

\* arr_[i] = e
Store(b, i, e) == IF InBlock(b, i) THEN [b EXCEPT !.mem[i + 1] = e] ELSE b

\* std::move / std::copy (first, last, d_first) of src[first, last) to
\* dst[d, ...), where dst is another block or the same block with d < first
\* (a forward copy then reads every slot before it is overwritten).  An
\* empty range copies nothing.
CopyRange(src, first, last, dst, d) ==
    IF dst.null THEN dst
    ELSE [dst EXCEPT !.mem = [j \in 1..Len(dst.mem) |->
            IF d <= j - 1 /\ j - 1 < d + (last - first)
            THEN Load(src, first + (j - 1 - d))
            ELSE dst.mem[j]]]

\* Whether that copy reads or writes outside a block.
CopyOutside(src, first, last, dst, d) ==
    /\ first < last
    /\ \/ ~InBlock(src, first) \/ ~InBlock(src, last - 1)
       \/ ~InBlock(dst, d) \/ ~InBlock(dst, d + (last - first) - 1)


\* ------------------------------------------------------------ class vec
\* The fields of one vec<T>.
VecOf(a, s, l, m) == [arr_ |-> a, size_ |-> s, len_ |-> l, minlen_ |-> m]

\* explicit vec(uint_32_cx n_elem = 64)
vec(n_elem) == VecOf(NewArr(n_elem), 0, n_elem, MinLenOf(n_elem))

\* The result of a member function: the fields it leaves and whether it
\* read or wrote outside a block or handed std::move an inverted range.
Res(r, u) == [v |-> r, ub |-> u]

\* A size_ that a decrement took below zero (2^w - k).
Wrapped(r) == r.size_ < 0

\* A relocation that leaves the elements behind.
RelocateDrop(r, n) == NewArr(n)

\* std::move(arr_, arr_ + size_, n_arr) into a fresh block, as grow() and
\* shrink() do it.
Relocate(r, n) == CopyRange(r.arr_, 0, r.size_, NewArr(n), 0)

RelocateUB(r, n) ==
    Wrapped(r) \/ CopyOutside(r.arr_, 0, r.size_, NewArr(n), 0)

\* void grow()
grow(r) ==
    LET n == MulOneAndHalf(r.len_)
    IN  [r EXCEPT !.len_ = n, !.arr_ = Relocate(r, n),
                  !.minlen_ = MinLenOf(r.size_)]

growUB(r) == RelocateUB(r, MulOneAndHalf(r.len_))

\* A shrink() that fits the capacity to the length.
shrinkToSize(r) ==
    [r EXCEPT !.len_ = r.size_, !.arr_ = Relocate(r, r.size_),
              !.minlen_ = MinLenOf(r.size_)]

\* void shrink()
shrink(r) ==
    LET n == r.len_ \div 2
    IN  [r EXCEPT !.len_ = n, !.arr_ = Relocate(r, n),
                  !.minlen_ = MinLenOf(r.size_)]

shrinkUB(r) == RelocateUB(r, r.len_ \div 2)

\* void add(const T& e)  (emplace_back has the same body)
add(r, e) ==
    LET g == IF r.size_ = r.len_ THEN grow(r) ELSE r
        u == (r.size_ = r.len_ /\ growUB(r)) \/ ~InBlock(g.arr_, g.size_)
    IN  Res([g EXCEPT !.arr_ = Store(g.arr_, g.size_, e),
                      !.size_ = g.size_ + 1], u)

\* A removal that halves the capacity as soon as a slot is free.
MaybeShrinkEager(r) == IF ULess(r.size_, r.len_) THEN shrink(r) ELSE r

\* if (size_ < minlen_) shrink();  -- the first statement of both removals
MaybeShrink(r) == IF ULess(r.size_, r.minlen_) THEN shrink(r) ELSE r

MaybeShrinkUB(r) == ULess(r.size_, r.minlen_) /\ shrinkUB(r)

\* The indices at which the loop of remove() can stop:
\*   for (i = 0; i < len_; i++) if (arr_[i] == e) ...
\* A slot holding e stops it; a slot holding an indeterminate value may or
\* may not compare equal.  -1: the loop runs to its end.
RemoveStops(r, e) ==
    LET hit(i) == Load(r.arr_, i) = e
        may(i) == Load(r.arr_, i) \in {e, Indet}
    IN  {i \in 0..(r.len_ - 1) : may(i) /\ \A j \in 0..(i - 1) : ~hit(j)}
        \cup (IF \E i \in 0..(r.len_ - 1) : hit(i) THEN {} ELSE {-1})

\* An erasure that decrements size_ without moving the tail down.
EraseAtNoShift(r, i) == [r EXCEPT !.size_ = r.size_ - 1]

\* std::move(arr_ + i + 1, arr_ + size_, arr_ + i); size_--;
\* The range is inverted when arr_ + size_ lies before arr_ + i + 1.
EraseAt(r, i) ==
    [r EXCEPT !.arr_ = CopyRange(r.arr_, i + 1, r.size_, r.arr_, i),
              !.size_ = r.size_ - 1]

EraseAtUB(r, i) ==
    \/ r.size_ < i + 1
    \/ CopyOutside(r.arr_, i + 1, r.size_, r.arr_, i)

\* void remove(const T& e), when its loop stops at index i (or at -1).
remove(r, e, i) ==
    LET s == MaybeShrink(r)
        scanOut == \E j \in 0..(IF i < 0 THEN s.len_ - 1 ELSE i) :
                      ~InBlock(s.arr_, j)
    IN  IF i < 0 THEN Res(s, MaybeShrinkUB(r) \/ scanOut)
        ELSE Res(EraseAt(s, i), MaybeShrinkUB(r) \/ scanOut \/ EraseAtUB(s, i))

\* A removeAt() that drops the last element whatever the index.
removeAtLast(r, index) ==
    Res([MaybeShrink(r) EXCEPT !.size_ = @ - 1], MaybeShrinkUB(r))

\* void removeAt(const uint_32_cx& index)
removeAt(r, index) ==
    LET s == MaybeShrink(r)
    IN  Res(EraseAt(s, index), MaybeShrinkUB(r) \/ EraseAtUB(s, index))

\* uint_32_cx size() const
size(r) == r.size_

\* T& operator[](const uint_32_cx& index) const, read
get(r, index) == Load(r.arr_, index)

\* A clear() that allocates the 32 slots and leaves len_ as it was.
clearKeepsLen(r) == VecOf(NewArr(ClearCap), 0, r.len_, 0)

\* void clear()
clear(r) == VecOf(NewArr(ClearCap), 0, ClearCap, 0)

\* What a scan for val can return:
\*   for (i = from; i < to; i++) if (arr_[i] == val) return true;
\*   return false;
\* (endless: the loop has no upper end).  [ret, ub]: the value returned and
\* whether the scan read outside the block to get there.  A slot holding an
\* indeterminate value may or may not compare equal; so may the memory
\* behind the block.
Scan(b, from, to, endless, val) ==
    LET last   == IF endless \/ to > Alloc(b) THEN Alloc(b) ELSE to
        inside == from..(last - 1)
        leaves == (endless \/ to > Alloc(b) \/ b.null) /\ (endless \/ from < to)
        hit    == \E i \in inside : Load(b, i) = val
        may    == \E i \in inside : Load(b, i) = Indet
    IN  IF hit THEN {[ret |-> TRUE, ub |-> FALSE]}
        ELSE (IF may THEN {[ret |-> TRUE, ub |-> FALSE]} ELSE {})
             \cup (IF leaves THEN {[ret |-> TRUE, ub |-> TRUE]} ELSE {})
             \cup (IF leaves /\ ~endless THEN {[ret |-> FALSE, ub |-> TRUE]} ELSE {})
             \cup (IF ~leaves THEN {[ret |-> FALSE, ub |-> FALSE]} ELSE {})

\* bool contains(const T& val, bool startFront = true)
\*   front: for (int i = 0; i < size_; i++)       -- i < size_ is unsigned
\*   back:  for (int i = size_ - 1; i > -1; i++)  -- counts upwards
contains(r, val, startFront) ==
    IF startFront
    THEN Scan(r.arr_, 0, r.size_, Wrapped(r), val)
    ELSE IF r.size_ - 1 > -1
         THEN Scan(r.arr_, r.size_ - 1, 0, TRUE, val)
         ELSE {[ret |-> FALSE, ub |-> FALSE]}

\* An at() that counts negative indices from -1 = first element upwards
\* instead of from the end.
atFromFront(r, index) ==
    IF index < 0
    THEN IF r.size_ + index >= 0 THEN -index - 1 ELSE -1
    ELSE IF ULess(index, r.size_) THEN index ELSE -1

\* T& at(const int_32_cx& index): the slot whose reference it returns, or
\* -1 when it throws std::out_of_range.
at(r, index) ==
    IF index < 0
    THEN LET access == r.size_ + index
         IN  IF access >= 0 THEN access ELSE -1
    ELSE IF ULess(index, r.size_) THEN index ELSE -1

\* while (len_ - size_ < n) grow();
RECURSIVE GrowWhile(_, _)
GrowWhile(r, n) ==
    IF ULess(r.len_ - r.size_, n) THEN GrowWhile(grow(r), n) ELSE r

RECURSIVE GrowWhileUB(_, _)
GrowWhileUB(r, n) ==
    ULess(r.len_ - r.size_, n) /\ (growUB(r) \/ GrowWhileUB(grow(r), n))

\* That loop never ends when grow() leaves len_ as it is (len_ *= 1.5 for
\* len_ of 0 or 1).
GrowWhileHangs(r, n) ==
    ULess(r.len_ - r.size_, n) /\ MulOneAndHalf(r.len_) = r.len_

\* void append(vec<T>& list, uint_32_cx endIndex, uint_32_cx startIndex),
\* past its range check; append(vec<T>& vec) is this with the range
\* [0, vec.size_).  o is list; same: list is *this, and list.arr_ is then
\* the grown block when the copy starts.
appendFrom(r, o, same, endIndex, startIndex) ==
    LET n == endIndex - startIndex
        g == GrowWhile(r, n)
        a == IF same THEN g.arr_ ELSE o.arr_
    IN  Res([g EXCEPT !.arr_ = CopyRange(a, startIndex, endIndex,
                                          g.arr_, g.size_),
                      !.size_ = g.size_ + n],
            GrowWhileUB(r, n)
              \/ CopyOutside(a, startIndex, endIndex, g.arr_, g.size_))

\* if (startIndex >= endIndex || endIndex > list.size_) throw
appendThrows(o, endIndex, startIndex) ==
    (~ULess(startIndex, endIndex)) \/ ULess(o.size_, endIndex)

\* vec& operator=(const vec<T>& o), this != &o
copyAssign(r, o) ==
    VecOf(CopyRange(o.arr_, 0, o.size_, NewArr(o.size_), 0),
          o.size_, o.len_, o.minlen_)

\* vec(const vec<T>& o): a block of o.len_ slots with o's elements
copyConstruct(o) ==
    VecOf(CopyRange(o.arr_, 0, o.size_, NewArr(o.len_), 0),
          o.size_, o.len_, o.minlen_)

copyConstructUB(o) == CopyOutside(o.arr_, 0, o.size_, NewArr(o.len_), 0)

\* A moved-from vec that keeps the capacity it had recorded.
MovedFromKeepsLen == VecOf(NullPtr, 0, 1, 0)

\* What operator=(vec&& o) leaves in o (and the move constructor too).
MovedFrom == VecOf(NullPtr, 0, 0, 0)

\* ------------------------------------------------------ class LinkedList
\* A Node* is the identity of a node (1..MaxNodes) or nullptr; new Node
\* never returns the same node twice, so a node that was deleted stays
\* recognisable.  heap[n] is the node: its fields and whether new has
\* returned it and delete was given it.
NullNode == 0

NodeIds == 1..MaxNodes

\* What a dereference of a pointer that is not a live node leaves in a
\* pointer variable.
BadNode == -2

\* struct ListNode { T val_; ListNode* next_; }
Node(val, next) == [val_ |-> val, next_ |-> next, mem |-> "live"]

FreshHeap == [n \in NodeIds |-> [val_ |-> Indet, next_ |-> NullNode, mem |-> "unused"]]

\* LinkedList(): head_(nullptr), end_(nullptr), size_(0)
EmptyList == [size_ |-> 0, head_ |-> NullNode, end_ |-> NullNode]

\* p->val_ and p->next_ are defined
Valid(h, p) == p \in NodeIds /\ h[p].mem = "live"

CanNewNode(h) == \E n \in NodeIds : h[n].mem = "unused"

\* new Node(...): the node it returns
NewNode(h) ==
    CHOOSE n \in NodeIds :
        h[n].mem = "unused" /\ \A m \in 1..(n - 1) : h[m].mem # "unused"

\* delete p: what the node held is not to be read again
DeleteNode(h, p) ==
    IF p \notin NodeIds THEN h
    ELSE [h EXCEPT ![p] = [val_ |-> Indet, next_ |-> NullNode,
                           mem |-> IF @.mem = "live" THEN "deleted"
                                   ELSE "deleted twice"]]

\* How a member call ends: the list, the nodes, the value it returns and
\* out: "ok" (it returned), "aborted" (an assert failed: abort() was
\* called), "ub" (it dereferenced a pointer that is no live node).  No
\* member has a throw statement: "threw" is not among them.
LRes(l, h, ret, out) == [l |-> l, h |-> h, ret |-> ret, out |-> out]

\* begin() == end(): Iterator(head_) == Iterator(nullptr)
BeginIsEnd(l) == l.head_ = NullNode

\* push(val)
LL_push(l, h, val) ==
    LET n == NewNode(h)
        h1 == [h EXCEPT ![n] = Node(val, NullNode)]
    IN  IF l.head_ = NullNode
        THEN LRes([l EXCEPT !.head_ = n, !.end_ = n, !.size_ = @ + 1],
                  h1, Indet, "ok")
        ELSE IF ~Valid(h, l.end_) THEN LRes(l, h1, Indet, "ub")
        ELSE LRes([l EXCEPT !.end_ = n, !.size_ = @ + 1],
                  [h1 EXCEPT ![l.end_].next_ = n], Indet, "ok")

\* for (i = 0; i < k; ++i) previous = previous->next_;
RECURSIVE Advance(_, _, _)
Advance(h, previous, k) ==
    IF k = 0 THEN previous
    ELSE IF ~Valid(h, previous) THEN BadNode
    ELSE Advance(h, h[previous].next_, k - 1)

\* val = toDelete->val_; delete toDelete; --size_; return val;
Unlinked(l, h, toDelete) ==
    LRes([l EXCEPT !.size_ = @ - 1], DeleteNode(h, toDelete),
         h[toDelete].val_, "ok")

\* A removeAt that unlinks the first node whatever the index is.
LL_removeAtFront(l, h, index, nd) ==
    IF ~ULess(index, l.size_) /\ ~nd THEN LRes(l, h, Indet, "aborted")
    ELSE IF ~Valid(h, l.head_) THEN LRes(l, h, Indet, "ub")
    ELSE Unlinked([l EXCEPT !.head_ = h[l.head_].next_,
                            !.end_ = IF l.size_ = 1 THEN NullNode ELSE @],
                  h, l.head_)

\* removeAt(index); nd: the build defines NDEBUG, assert expands to nothing
LL_removeAt(l, h, index, nd) ==
    IF ~ULess(index, l.size_) /\ ~nd THEN LRes(l, h, Indet, "aborted")
    ELSE IF index = 0
    THEN IF ~Valid(h, l.head_) THEN LRes(l, h, Indet, "ub")
         ELSE Unlinked([l EXCEPT !.head_ = h[l.head_].next_,
                                 !.end_ = IF l.size_ = 1 THEN NullNode ELSE @],
                       h, l.head_)
    ELSE LET previous == Advance(h, l.head_, index - 1)
         IN  IF ~Valid(h, previous) THEN LRes(l, h, Indet, "ub")
             ELSE LET toDelete == h[previous].next_
                  IN  IF ~Valid(h, toDelete) THEN LRes(l, h, Indet, "ub")
                      ELSE Unlinked(
                          [l EXCEPT !.end_ = IF toDelete = @ THEN previous ELSE @],
                          [h EXCEPT ![previous].next_ = h[toDelete].next_],
                          toDelete)

\* while (previous->next_ != end_) previous = previous->next_;
RECURSIVE FindPrevious(_, _, _)
FindPrevious(h, previous, end) ==
    IF ~Valid(h, previous) THEN BadNode
    ELSE IF h[previous].next_ = end THEN previous
    ELSE FindPrevious(h, h[previous].next_, end)

\* pop()
LL_pop(l, h, nd) ==
    IF l.end_ # NullNode /\ ~nd THEN LRes(l, h, Indet, "aborted")
    ELSE LET toDelete == l.end_
         IN  IF l.end_ = l.head_
             THEN LRes([l EXCEPT !.head_ = NullNode, !.end_ = NullNode,
                                 !.size_ = @ - 1],
                       DeleteNode(h, toDelete), Indet, "ok")
             ELSE LET previous == FindPrevious(h, l.head_, l.end_)
                  IN  IF ~Valid(h, previous) THEN LRes(l, h, Indet, "ub")
                      ELSE LRes([l EXCEPT !.end_ = previous, !.size_ = @ - 1],
                                DeleteNode([h EXCEPT ![previous].next_ = NullNode],
                                           toDelete),
                                Indet, "ok")

\* back()
LL_back(l, h, nd) ==
    IF l.end_ = NullNode /\ ~nd THEN LRes(l, h, Indet, "aborted")
    ELSE IF ~Valid(h, l.end_) THEN LRes(l, h, Indet, "ub")
    ELSE LRes(l, h, h[l.end_].val_, "ok")

\* while (current->next_ && current->next_->val_ != val)
\*   current = current->next_;
RECURSIVE FindBefore(_, _, _)
FindBefore(h, current, val) ==
    IF ~Valid(h, current) THEN BadNode
    ELSE IF h[current].next_ = NullNode THEN current
    ELSE IF ~Valid(h, h[current].next_) THEN BadNode
    ELSE IF h[h[current].next_].val_ = val THEN current
    ELSE FindBefore(h, h[current].next_, val)

\* remove(val)
LL_remove(l, h, val, nd) ==
    IF l.head_ # NullNode /\ ~nd THEN LRes(l, h, Indet, "aborted")
    ELSE IF ~Valid(h, l.head_) THEN LRes(l, h, Indet, "ub")
    ELSE IF h[l.head_].val_ = val
    THEN LET head == h[l.head_].next_
         IN  LRes([l EXCEPT !.head_ = head,
                            !.end_ = IF head = NullNode THEN NullNode ELSE @,
                            !.size_ = @ - 1],
                  DeleteNode(h, l.head_), Indet, "ok")
    ELSE LET current == FindBefore(h, l.head_, val)
         IN  IF ~Valid(h, current) THEN LRes(l, h, Indet, "ub")
             ELSE IF h[current].next_ = NullNode THEN LRes(l, h, Indet, "ok")
             ELSE LET toDelete == h[current].next_
                  IN  LRes([l EXCEPT !.end_ = IF toDelete = @ THEN current ELSE @,
                                     !.size_ = @ - 1],
                           DeleteNode([h EXCEPT ![current].next_ = h[toDelete].next_],
                                      toDelete),
                           Indet, "ok")

\* while (current != nullptr) { next = current->next_; delete current;
\*   current = next; }
RECURSIVE DeleteChain(_, _)
DeleteChain(h, current) ==
    IF current = NullNode THEN [h |-> h, out |-> "ok"]
    ELSE IF ~Valid(h, current) THEN [h |-> h, out |-> "ub"]
    ELSE DeleteChain(DeleteNode(h, current), h[current].next_)

\* clear()
LL_clear(l, h) ==
    LET d == DeleteChain(h, l.head_)
    IN  IF d.out = "ub" THEN LRes(l, d.h, Indet, "ub")
        ELSE LRes([l EXCEPT !.head_ = NullNode, !.end_ = NullNode, !.size_ = 0],
                  d.h, Indet, "ok")

\* while (current_old != nullptr) {
\*   current_new->next_ = new Node(current_old->val_);
\*   current_new = current_new->next_; current_old = current_old->next_; }
\* end: current_new when the loop is left.
RECURSIVE CopyChain(_, _, _)
CopyChain(h, current_new, current_old) ==
    IF current_old = NullNode
    THEN [h |-> h, end |-> current_new, out |-> "ok"]
    ELSE IF ~Valid(h, current_old)
    THEN [h |-> h, end |-> current_new, out |-> "ub"]
    ELSE LET n == NewNode(h)
         IN  CopyChain([h EXCEPT ![n] = Node(h[current_old].val_, NullNode),
                                 ![current_new].next_ = n],
                       n, h[current_old].next_)

\* LinkedList(const LinkedList<T>& o): the list constructed
LL_copy(o, h) ==
    IF o.head_ = NullNode
    THEN LRes([size_ |-> o.size_, head_ |-> NullNode, end_ |-> NullNode],
              h, Indet, "ok")
    ELSE IF ~Valid(h, o.head_)
    THEN LRes([size_ |-> o.size_, head_ |-> BadNode, end_ |-> BadNode],
              h, Indet, "ub")
    ELSE LET n == NewNode(h)
             c == CopyChain([h EXCEPT ![n] = Node(h[o.head_].val_,
                                                  h[o.head_].next_)],
                            n, h[o.head_].next_)
         IN  LRes([size_ |-> o.size_, head_ |-> n, end_ |-> c.end],
                  c.h, Indet, c.out)

\* LinkedList& operator=(const LinkedList<T>& o), this != &o
LL_assign(l, o, h) ==
    LET cl == LL_clear(l, h)
    IN  IF cl.out = "ub" THEN cl
        ELSE IF o.head_ = NullNode
        THEN LRes([cl.l EXCEPT !.size_ = o.size_], cl.h, Indet, "ok")
        ELSE IF ~Valid(cl.h, o.head_)
        THEN LRes([cl.l EXCEPT !.size_ = o.size_], cl.h, Indet, "ub")
        ELSE LET n == NewNode(cl.h)
                 c == CopyChain([cl.h EXCEPT ![n] = Node(cl.h[o.head_].val_,
                                                         NullNode)],
                                n, cl.h[o.head_].next_)
             IN  LRes([size_ |-> o.size_, head_ |-> n, end_ |-> c.end],
                      c.h, Indet, c.out)

\* The nodes an iteration from begin() to end() visits, in order.
RECURSIVE ChainFrom(_, _)
ChainFrom(h, p) ==
    IF ~Valid(h, p) THEN <<>>
    ELSE <<p>> \o ChainFrom(h, h[p].next_)

\* Their values.
ValuesOf(l, h) ==
    LET c == ChainFrom(h, l.head_)
    IN  [i \in 1..Len(c) |-> h[c[i]].val_]

\* No member was called yet.
NoLCall == [op |-> "none", arg |-> 0, ret |-> Indet]

\* No LinkedList is constructed.
NoList ==
    /\ lst = EmptyList
    /\ lst2 = EmptyList
    /\ heap = FreshHeap
    /\ lstatus = "ok"
    /\ lcall = NoLCall
    /\ ndebug = FALSE

\* -------------------------------------------------------- binary search
\* cxalgo::binarySearch and cxalgo::binarySearch_recursive
\* (src/include/cxalgo/Search.h) on an int array.  low, high, mid and len
\* are int_fast32_t: signed, and far from their limits for the lengths
\* followed here.  Each search is a frame [pc, low, high, depth, ret]: pc
\* is "call" before the function is entered, "run" inside the loop (inside
\* binarySearch_recursive_internal), "done" once it has returned ret, and
\* "ub" when it has read arr[mid] outside the array; depth counts the
\* nested calls of binarySearch_recursive_internal.

\* x / 2 of C++: the quotient truncated towards zero
Half(x) == IF x >= 0 THEN x \div 2 ELSE -((-x) \div 2)

\* arr[i] is inside the array
InArray(a, i) == i >= 0 /\ i < Len(a)

\* arr[i]
ArrAt(a, i) == IF InArray(a, i) THEN a[i + 1] ELSE Indet

Frame(pc, low, high, depth, ret) ==
    [pc |-> pc, low |-> low, high |-> high, depth |-> depth, ret |-> ret]

Called == Frame("call", 0, 0, 0, FALSE)

\* int_fast32_t low = 0; int_fast32_t high = len - 1;
binarySearch(n) == Frame("run", 0, n - 1, 0, FALSE)

\* An iteration that keeps mid inside the range it goes on with.
binarySearch_keepsMid(f, a, t) ==
    IF ~(f.low <= f.high) THEN [f EXCEPT !.pc = "done", !.ret = FALSE]
    ELSE LET mid == f.low + Half(f.high - f.low)
         IN  IF ~InArray(a, mid) THEN [f EXCEPT !.pc = "ub"]
             ELSE IF ArrAt(a, mid) = t THEN [f EXCEPT !.pc = "done", !.ret = TRUE]
             ELSE IF ArrAt(a, mid) < t THEN [f EXCEPT !.low = mid]
             ELSE [f EXCEPT !.high = mid]

\* while (low <= high) { ... } return false;  -- one test of the
\* condition and, when it holds, one execution of the body
binarySearch_while(f, a, t) ==
    IF ~(f.low <= f.high) THEN [f EXCEPT !.pc = "done", !.ret = FALSE]
    ELSE LET mid == f.low + Half(f.high - f.low)
         IN  IF ~InArray(a, mid) THEN [f EXCEPT !.pc = "ub"]
             ELSE IF ArrAt(a, mid) = t THEN [f EXCEPT !.pc = "done", !.ret = TRUE]
             ELSE IF ArrAt(a, mid) < t THEN [f EXCEPT !.low = mid + 1]
             ELSE [f EXCEPT !.high = mid - 1]

\* binarySearch_recursive(arr, target, len)
binarySearch_recursive(n) ==
    IF n = 0 THEN Frame("done", 0, 0, 0, FALSE)
    ELSE Frame("run", 0, n - 1, 1, FALSE)

\* binarySearch_recursive_internal(arr, target, low, high): the body of
\* one call; the value the innermost call returns is returned by all
binarySearch_recursive_internal(f, a, t) ==
    IF f.low > f.high THEN [f EXCEPT !.pc = "done", !.ret = FALSE]
    ELSE LET mid == f.low + Half(f.high - f.low)
         IN  IF ~InArray(a, mid) THEN [f EXCEPT !.pc = "ub"]
             ELSE IF ArrAt(a, mid) = t THEN [f EXCEPT !.pc = "done", !.ret = TRUE]
             ELSE IF ArrAt(a, mid) < t
             THEN [f EXCEPT !.low = mid + 1, !.depth = @ + 1]
             ELSE [f EXCEPT !.high = mid - 1, !.depth = @ + 1]

\* No search is called.
NoSearch ==
    /\ arr = <<>>
    /\ target = 0
    /\ len = 0
    /\ bs = Frame("none", 0, 0, 0, FALSE)
    /\ rs = Frame("none", 0, 0, 0, FALSE)

\* --------------------------------------------------- depth first search
\* cxalgos::depth_first_search (src/include/cxalgos/GraphTraversal.h) on a
\* std::vector<std::vector<int>>: a sequence of rows.  vis is passed by
\* value: a call works on its own copy.  nodeIndex is an int; it is
\* converted to size_t for nodeIndex >= mat.size(), where a negative value
\* is a large one (ULess).

\* std::vector(n, false)
RECURSIVE Falses(_)
Falses(n) == IF n = 0 THEN <<>> ELSE Append(Falses(n - 1), FALSE)

\* std::vector(mat.size(), false)
NotVisited(m) == Falses(Len(m))

RECURSIVE depth_first_search(_, _, _)
RECURSIVE depth_first_search_for(_, _, _, _, _)

\* for (int i = ...; i < mat[nodeIndex].size(); ++i) { ... } return count;
\* from the value i has, with the count and the vis the call has so far
depth_first_search_for(m, node, vis, i, count) ==
    IF ~(i < Len(m[node + 1])) THEN count
    ELSE IF m[node + 1][i + 1] = 1 /\ ~vis[i + 1]
    THEN depth_first_search_for(m, node, [vis EXCEPT ![i + 1] = TRUE], i + 1,
             count + depth_first_search(m, node, [vis EXCEPT ![i + 1] = TRUE]))
    ELSE depth_first_search_for(m, node, vis, i + 1, count)

\* depth_first_search(mat, nodeIndex, vis = {})
depth_first_search(m, node, vis) ==
    IF m = <<>> \/ ~ULess(node, Len(m)) THEN 0
    ELSE IF vis = <<>>
    THEN depth_first_search_for(m, node, NotVisited(m), 0, 2)
    ELSE depth_first_search_for(m, node, vis, 0, 1)

\* No traversal is called.
NoDfs ==
    /\ mat = <<>>
    /\ nodeIndex = 0
    /\ dfs = [pc |-> "none", ret |-> 0]

\* ------------------------------------------------------- the test driver
\* The values a scripted run adds: list.add(i) as in TEST() (vec.h:389,
\* 411), the same value every time, and an alternation.
Scripts == {1, 2, 3}

ScriptValue(s, i) == IF s = 1 THEN i ELSE IF s = 2 THEN 5 ELSE i % 2

\* The record of the last call: its arguments and what it gave back.
NoCall ==
    [op |-> "none", self |-> 0, other |-> 0, val |-> 0, idx |-> 0,
     end |-> 0, front |-> TRUE, slot |-> -1, ret |-> Indet,
     found |-> FALSE, threw |-> FALSE]

CallOf(name, v) == [NoCall EXCEPT !.op = name, !.self = v]

\* The program's behaviour is defined so far, and it is not caught in a
\* loop that never ends.
Running == status = "ok"

\* The driver is between two statements: the last call's result has been
\* looked at.
Idle == Running /\ call.op = "none"

\* The driver that picks any call (script = 0), as opposed to the one that
\* follows a script of the test function.
Unscripted == Idle /\ script = 0

\* The end of a call c on vecs[v] that leaves the fields r; u: the call
\* executed undefined behaviour.
Return(v, r, u, c) ==
    /\ vecs' = [vecs EXCEPT ![v] = r]
    /\ status' = IF u THEN "ub" ELSE status
    /\ call' = c

\* The call never returns.
Hang(v) ==
    /\ status' = "hung"
    /\ call' = CallOf("hung", v)
    /\ UNCHANGED vecs

\* vec<T> list1(n), list2(m);
InitSized ==
    /\ vecs \in [Inst -> {vec(n) : n \in 0..MaxCap}]
    /\ status = "ok"
    /\ call = NoCall
    /\ script = 0
    /\ n_added = 0
    /\ n_removed = 0

\* vec<T> list1, list2;  and the choice of a script
InitDefault ==
    /\ vecs = [v \in Inst |-> vec(DefaultCap)]
    /\ status = "ok"
    /\ call = NoCall
    /\ script \in Scripts
    /\ n_added = 0
    /\ n_removed = 0

\* No vec of SpecOwn is constructed.
NoBlocks ==
    /\ ptr = [v \in Inst |-> 0]
    /\ alive = [v \in Inst |-> FALSE]
    /\ blocks = [b \in 1..MaxBlocks |-> "unused"]

\* The capacity policy driver is not run.
NoHyst == resized = "no"

Init ==
    (InitSized \/ InitDefault) /\ NoBlocks /\ NoList /\ NoSearch /\ NoDfs
        /\ NoHyst

Add(v, e) ==
    /\ Unscripted
    /\ vecs[v].size_ < MaxSize
    /\ LET x == add(vecs[v], e)
       IN  Return(v, x.v, x.ub, [CallOf("add", v) EXCEPT !.val = e])
    /\ UNCHANGED <<script, n_added, n_removed, others>>

Remove(v, e) ==
    /\ Unscripted
    /\ \E i \in RemoveStops(MaybeShrink(vecs[v]), e) :
          LET x == remove(vecs[v], e, i)
          IN  Return(v, x.v, x.ub,
                     [CallOf("remove", v) EXCEPT !.val = e, !.slot = i])
    /\ UNCHANGED <<script, n_added, n_removed, others>>

\* removeAt is called with a valid index only: 0 <= index < size().
RemoveAt(v, index) ==
    /\ Unscripted
    /\ ULess(index, vecs[v].size_)
    /\ LET x == removeAt(vecs[v], index)
       IN  Return(v, x.v, x.ub, [CallOf("removeAt", v) EXCEPT !.idx = index])
    /\ UNCHANGED <<script, n_added, n_removed, others>>

Clear(v) ==
    /\ Unscripted
    /\ Return(v, clear(vecs[v]), FALSE, CallOf("clear", v))
    /\ UNCHANGED <<script, n_added, n_removed, others>>

Contains(v, val, startFront) ==
    /\ Unscripted
    /\ \E x \in contains(vecs[v], val, startFront) :
          Return(v, vecs[v], x.ub,
                 [CallOf("contains", v) EXCEPT !.val = val,
                     !.front = startFront, !.found = x.ret])
    /\ UNCHANGED <<script, n_added, n_removed, others>>

\* at(index), and the read of the reference it returns.
At(v, index) ==
    /\ Unscripted
    /\ LET a == at(vecs[v], index)
           c == [CallOf("at", v) EXCEPT !.idx = index, !.slot = a]
       IN  IF a < 0
           THEN Return(v, vecs[v], FALSE, [c EXCEPT !.threw = TRUE])
           ELSE Return(v, vecs[v], ~InBlock(vecs[v].arr_, a),
                       [c EXCEPT !.ret = Load(vecs[v].arr_, a)])
    /\ UNCHANGED <<script, n_added, n_removed, others>>

\* append is not called when it would take size_ beyond MaxSize.
AppendBound(r, n) == r.size_ + n <= MaxSize

AppendAll(v, o) ==
    /\ Unscripted
    /\ AppendBound(vecs[v], vecs[o].size_)
    /\ LET c == [CallOf("append", v) EXCEPT !.other = o]
       IN  IF GrowWhileHangs(vecs[v], vecs[o].size_)
           THEN Hang(v)
           ELSE LET x == appendFrom(vecs[v], vecs[o], v = o, vecs[o].size_, 0)
                IN  Return(v, x.v, x.ub, c)
    /\ UNCHANGED <<script, n_added, n_removed, others>>

AppendRange(v, o, endIndex, startIndex) ==
    /\ Unscripted
    /\ LET c == [CallOf("appendRange", v) EXCEPT
                    !.other = o, !.end = endIndex, !.idx = startIndex]
       IN  IF appendThrows(vecs[o], endIndex, startIndex)
           THEN Return(v, vecs[v], FALSE, [c EXCEPT !.threw = TRUE])
           ELSE /\ AppendBound(vecs[v], endIndex - startIndex)
                /\ IF GrowWhileHangs(vecs[v], endIndex - startIndex)
                   THEN Hang(v)
                   ELSE LET x == appendFrom(vecs[v], vecs[o], v = o,
                                            endIndex, startIndex)
                        IN  Return(v, x.v, x.ub, c)
    /\ UNCHANGED <<script, n_added, n_removed, others>>

\* v = o;  (a self-assignment changes nothing)
CopyAssign(v, o) ==
    /\ Unscripted
    /\ Return(v, IF v = o THEN vecs[v] ELSE copyAssign(vecs[v], vecs[o]),
              FALSE, [CallOf("copyAssign", v) EXCEPT !.other = o])
    /\ UNCHANGED <<script, n_added, n_removed, others>>

\* vec<T> v(o);  -- a new v, constructed as a copy of o
CopyConstruct(v, o) ==
    /\ Unscripted
    /\ v # o
    /\ Return(v, copyConstruct(vecs[o]), copyConstructUB(vecs[o]),
              [CallOf("copyConstruct", v) EXCEPT !.other = o])
    /\ UNCHANGED <<script, n_added, n_removed, others>>

\* v = std::move(o);
MoveAssign(v, o) ==
    /\ Unscripted
    /\ v # o
    /\ vecs' = [vecs EXCEPT ![v] = vecs[o], ![o] = MovedFrom]
    /\ call' = [CallOf("moveAssign", v) EXCEPT !.other = o]
    /\ UNCHANGED <<status, script, n_added, n_removed, others>>

\* vec<T> v(std::move(o));  -- a new v, constructed from o's fields
MoveConstruct(v, o) ==
    /\ Unscripted
    /\ v # o
    /\ vecs' = [vecs EXCEPT
                   ![v] = VecOf(vecs[o].arr_, vecs[o].size_, vecs[o].len_,
                                vecs[o].minlen_),
                   ![o] = MovedFrom]
    /\ call' = [CallOf("moveConstruct", v) EXCEPT !.other = o]
    /\ UNCHANGED <<status, script, n_added, n_removed, others>>

\* { vec<T> tmp(std::move(o)); }  -- the move constructor, as o sees it
MoveOut(o) ==
    /\ Unscripted
    /\ vecs' = [vecs EXCEPT ![o] = MovedFrom]
    /\ call' = CallOf("moveOut", o)
    /\ UNCHANGED <<status, script, n_added, n_removed, others>>

\* The driver goes on to its next statement.
Proceed ==
    /\ Running
    /\ call.op # "none"
    /\ call' = NoCall
    /\ UNCHANGED <<vecs, status, script, n_added, n_removed, others>>

\* list1 is the vec under test; list2 is the argument of append and of the
\* assignments, filled with add.
list1 == 1
list2 == 2

\* for (int i = 0; i < N; i++) list1.add(value(i));
AddScripted ==
    /\ Idle
    /\ script # 0
    /\ n_removed = 0
    /\ n_added < MaxAdds
    /\ LET e == ScriptValue(script, n_added)
           x == add(vecs[list1], e)
       IN  Return(list1, x.v, x.ub, [CallOf("add", list1) EXCEPT !.val = e])
    /\ n_added' = n_added + 1
    /\ UNCHANGED <<script, n_removed, others>>

\* for (int i = 0; i < N; i++) list1.remove(value(i));
RemoveScripted ==
    /\ Idle
    /\ script # 0
    /\ n_added = MaxAdds
    /\ n_removed < n_added
    /\ LET e == ScriptValue(script, n_removed)
       IN  \E i \in RemoveStops(MaybeShrink(vecs[list1]), e) :
              LET x == remove(vecs[list1], e, i)
              IN  Return(list1, x.v, x.ub,
                         [CallOf("remove", list1) EXCEPT
                             !.val = e, !.slot = i])
    /\ n_removed' = n_removed + 1
    /\ UNCHANGED <<script, n_added, others>>

\* for (int i = 0; i < N; i++) list1.removeAt(0);  -- the remove loop,
\* removing by index: value(i) is at index 0 when the loop gets to it
RemoveAtScripted ==
    /\ Idle
    /\ script # 0
    /\ n_added = MaxAdds
    /\ n_removed < n_added
    /\ LET x == removeAt(vecs[list1], 0)
       IN  Return(list1, x.v, x.ub, CallOf("removeAt", list1))
    /\ n_removed' = n_removed + 1
    /\ UNCHANGED <<script, n_added, others>>

\* list1.clear(); before the loops are run again (Test 4)
ClearScripted ==
    /\ Idle
    /\ script # 0
    /\ Return(list1, clear(vecs[list1]), FALSE, CallOf("clear", list1))
    /\ n_added' = 0
    /\ n_removed' = 0
    /\ UNCHANGED <<script, others>>

\* list2 is filled as the test fills it, with a different value at each
\* index: for (i = 0; ...) list2.add(value(i));
OtherValue(i) == (i % MaxVal) + 1

Next ==
    \/ \E e \in Values : Add(list1, e)
    \/ vecs[list2].size_ < MaxOther
          /\ Add(list2, OtherValue(vecs[list2].size_))
    \/ \E e \in Values : Remove(list1, e)
    \/ \E i \in 0..MaxSize : RemoveAt(list1, i)
    \/ Clear(list1)
    \/ \E e \in Values, f \in BOOLEAN : Contains(list1, e, f)
    \/ \E i \in (-MaxSize - 1)..MaxSize : At(list1, i)
    \/ \E o \in Inst : AppendAll(list1, o)
    \/ \E o \in Inst :
          /\ Unscripted
          /\ \E endIndex \in 0..(vecs[o].size_ + 1) :
                \E startIndex \in 0..(endIndex + 1) :
                   AppendRange(list1, o, endIndex, startIndex)
    \/ \E o \in Inst : CopyAssign(list1, o)
    \/ CopyConstruct(list1, list2)
    \/ MoveAssign(list1, list2)
    \/ MoveConstruct(list1, list2)
    \/ MoveOut(list1)
    \/ AddScripted
    \/ RemoveScripted
    \/ RemoveAtScripted
    \/ ClearScripted
    \/ Proceed

Spec == Init /\ [][Next]_vars

\* ------------------------------------------ storage blocks and owners
\* ptr[v] is arr_ of v as the identity of a block (1..MaxBlocks), 0 for
\* nullptr; alive[v]: v is constructed and not destroyed; blocks[b] tells
\* whether new[] has returned b and how often delete[] was given it.  A
\* block is never handed out twice, so a second release of it is seen.
\* grow() and shrink() are followed as OwnRealloc at any time an add or a
\* remove may call them.

\* No list1, list2 of the other driver exists.
NoVecs ==
    /\ vecs = [v \in Inst |-> MovedFrom]
    /\ status = "ok"
    /\ call = NoCall
    /\ script = 0
    /\ n_added = 0
    /\ n_removed = 0

InitOwn == NoVecs /\ NoBlocks /\ NoList /\ NoSearch /\ NoDfs /\ NoHyst

\* new T[n] can still return a block.
CanNew(bl) == \E b \in 1..MaxBlocks : bl[b] = "unused"

\* new T[n]: the block it returns
NewBlock(bl) ==
    CHOOSE b \in 1..MaxBlocks :
        bl[b] = "unused" /\ \A c \in 1..(b - 1) : bl[c] # "unused"

Allocated(bl) == [bl EXCEPT ![NewBlock(bl)] = "held"]

\* delete[] p
Deleted(bl, p) ==
    IF p = 0 THEN bl
    ELSE [bl EXCEPT ![p] = IF @ = "held" THEN "released"
                           ELSE "released twice"]

\* vec(n), vec(n, val), ...: arr_(new T[n_elem])
OwnConstruct(v) ==
    /\ ~alive[v]
    /\ CanNew(blocks)
    /\ ptr' = [ptr EXCEPT ![v] = NewBlock(blocks)]
    /\ blocks' = Allocated(blocks)
    /\ alive' = [alive EXCEPT ![v] = TRUE]
    /\ UNCHANGED notown

\* vec(const vec& o): arr_ = new T[len_]
OwnCopyConstruct(v, o) ==
    /\ ~alive[v]
    /\ alive[o]
    /\ CanNew(blocks)
    /\ ptr' = [ptr EXCEPT ![v] = NewBlock(blocks)]
    /\ blocks' = Allocated(blocks)
    /\ alive' = [alive EXCEPT ![v] = TRUE]
    /\ UNCHANGED notown

\* vec(vec&& o): arr_(o.arr_); o.arr_ = nullptr
OwnMoveConstruct(v, o) ==
    /\ ~alive[v]
    /\ alive[o]
    /\ ptr' = [ptr EXCEPT ![v] = ptr[o], ![o] = 0]
    /\ alive' = [alive EXCEPT ![v] = TRUE]
    /\ UNCHANGED <<blocks, notown>>

\* operator=(const vec& o): if (this != &o) { delete[] arr_; ...
\* arr_ = new T[size_]; }
OwnCopyAssign(v, o) ==
    /\ alive[v]
    /\ alive[o]
    /\ v # o
    /\ LET bl == Deleted(blocks, ptr[v])
       IN  /\ CanNew(bl)
           /\ ptr' = [ptr EXCEPT ![v] = NewBlock(bl)]
           /\ blocks' = Allocated(bl)
    /\ UNCHANGED <<alive, notown>>

\* A move assignment that leaves o.arr_ pointing at the block.
OwnMoveAssignShared(v, o) ==
    /\ alive[v]
    /\ alive[o]
    /\ v # o
    /\ blocks' = Deleted(blocks, ptr[v])
    /\ ptr' = [ptr EXCEPT ![v] = ptr[o]]
    /\ UNCHANGED <<alive, notown>>

\* operator=(vec&& o): if (this != &o) { delete[] arr_; arr_ = o.arr_; ...
\* o.arr_ = nullptr; }
OwnMoveAssign(v, o) ==
    /\ alive[v]
    /\ alive[o]
    /\ v # o
    /\ blocks' = Deleted(blocks, ptr[v])
    /\ ptr' = [ptr EXCEPT ![v] = ptr[o], ![o] = 0]
    /\ UNCHANGED <<alive, notown>>

\* operator= with this == &o, copy or move: nothing is done
OwnSelfAssign(v) ==
    /\ alive[v]
    /\ UNCHANGED <<ptr, alive, blocks, notown>>

\* grow(), shrink(): n_arr = new T[len_]; ...; delete[] arr_; arr_ = n_arr
OwnRealloc(v) ==
    /\ alive[v]
    /\ CanNew(blocks)
    /\ ptr' = [ptr EXCEPT ![v] = NewBlock(blocks)]
    /\ blocks' = Deleted(Allocated(blocks), ptr[v])
    /\ UNCHANGED <<alive, notown>>

\* clear(): delete[] arr_; arr_ = new T[len_]
OwnClear(v) ==
    /\ alive[v]
    /\ LET bl == Deleted(blocks, ptr[v])
       IN  /\ CanNew(bl)
           /\ ptr' = [ptr EXCEPT ![v] = NewBlock(bl)]
           /\ blocks' = Allocated(bl)
    /\ UNCHANGED <<alive, notown>>

\* ~vec(): delete[] arr_
OwnDestroy(v) ==
    /\ alive[v]
    /\ blocks' = Deleted(blocks, ptr[v])
    /\ alive' = [alive EXCEPT ![v] = FALSE]
    /\ UNCHANGED <<ptr, notown>>

NextOwn ==
    \/ \E v \in Inst : OwnConstruct(v)
    \/ \E v \in Inst, o \in Inst : OwnCopyConstruct(v, o)
    \/ \E v \in Inst, o \in Inst : OwnMoveConstruct(v, o)
    \/ \E v \in Inst, o \in Inst : OwnCopyAssign(v, o)
    \/ \E v \in Inst, o \in Inst : OwnMoveAssign(v, o)
    \/ \E v \in Inst : OwnSelfAssign(v)
    \/ \E v \in Inst : OwnRealloc(v)
    \/ \E v \in Inst : OwnClear(v)
    \/ \E v \in Inst : OwnDestroy(v)

SpecOwn == InitOwn /\ [][NextOwn]_vars

\* ------------------------------------------------ the LinkedList driver
\* One LinkedList<int>, list1 (lst), as in LinkedList<T>::TEST(): the
\* members are called in any order with any argument while no call has
\* ended in abort() or in undefined behaviour.  A second list (lst2) is
\* the copy: it is constructed from list1, assigned list1, and assigned
\* to list1.  The build is any of the two: with assert compiled in, or
\* with NDEBUG defined.
InitList ==
    /\ NoVecs
    /\ NoBlocks
    /\ NoSearch
    /\ NoDfs
    /\ NoHyst
    /\ lst = EmptyList
    /\ lst2 = EmptyList
    /\ heap = FreshHeap
    /\ lstatus = "ok"
    /\ lcall = NoLCall
    /\ ndebug \in BOOLEAN

\* The call op(arg) ends as r tells.
ListReturn(op, arg, r) ==
    /\ lst' = r.l
    /\ heap' = r.h
    /\ lstatus' = r.out
    /\ lcall' = [op |-> op, arg |-> arg, ret |-> r.ret]
    /\ UNCHANGED <<lst2, ndebug, notlist>>

ListPush(val) ==
    /\ lstatus = "ok"
    /\ CanNewNode(heap)
    /\ ListReturn("push", val, LL_push(lst, heap, val))

ListRemoveAt(index) ==
    /\ lstatus = "ok"
    /\ ListReturn("removeAt", index, LL_removeAt(lst, heap, index, ndebug))

\* pop() is not called again on a list whose size_ a pop() has wrapped
\* below zero: every further call on an empty list decrements it again.
ListPop ==
    /\ lstatus = "ok"
    /\ ~ULess(MaxNodes, lst.size_)
    /\ ListReturn("pop", 0, LL_pop(lst, heap, ndebug))

ListBack ==
    /\ lstatus = "ok"
    /\ ListReturn("back", 0, LL_back(lst, heap, ndebug))

ListRemove(val) ==
    /\ lstatus = "ok"
    /\ ListReturn("remove", val, LL_remove(lst, heap, val, ndebug))

ListClear ==
    /\ lstatus = "ok"
    /\ ListReturn("clear", 0, LL_clear(lst, heap))

\* new Node can return as many nodes as a copy of o takes.
CanCopy(o) ==
    Len(ChainFrom(heap, o.head_))
        <= Cardinality({n \in NodeIds : heap[n].mem = "unused"})

\* LinkedList<int> list2(list1);  -- a new list2; the one before it stays
\* as it is, under a name the driver does not use again
ListCopyConstruct ==
    /\ lstatus = "ok"
    /\ CanCopy(lst)
    /\ LET r == LL_copy(lst, heap)
       IN  /\ lst2' = r.l
           /\ heap' = r.h
           /\ lstatus' = r.out
    /\ lcall' = [op |-> "copyConstruct", arg |-> 0, ret |-> Indet]
    /\ UNCHANGED <<lst, ndebug, notlist>>

\* list2 = list1;
ListCopyAssign ==
    /\ lstatus = "ok"
    /\ CanCopy(lst)
    /\ LET r == LL_assign(lst2, lst, heap)
       IN  /\ lst2' = r.l
           /\ heap' = r.h
           /\ lstatus' = r.out
    /\ lcall' = [op |-> "copyAssign", arg |-> 0, ret |-> Indet]
    /\ UNCHANGED <<lst, ndebug, notlist>>

\* list1 = list2;
ListAssignBack ==
    /\ lstatus = "ok"
    /\ CanCopy(lst2)
    /\ LET r == LL_assign(lst, lst2, heap)
       IN  /\ lst' = r.l
           /\ heap' = r.h
           /\ lstatus' = r.out
    /\ lcall' = [op |-> "assignBack", arg |-> 0, ret |-> Indet]
    /\ UNCHANGED <<lst2, ndebug, notlist>>

NextList ==
    \/ \E val \in Values : ListPush(val)
    \/ \E index \in 0..MaxNodes : ListRemoveAt(index)
    \/ ListPop
    \/ ListBack
    \/ \E val \in Values : ListRemove(val)
    \/ ListClear
    \/ ListCopyConstruct
    \/ ListCopyAssign
    \/ ListAssignBack

SpecList == InitList /\ [][NextList]_vars

\* ------------------------------------------------ the binary search driver
\* TEST_SEARCH(): an ascending array of at most MaxLen keys out of
\* 1..MaxKey, equal neighbours included, and a target that is one of the
\* keys, or below or above all of them.  Both searches are given the same
\* array, target and length, and each runs to its return.
Keys == 1..MaxKey

Targets == 0..(MaxKey + 1)

Ascending(a) == \A i \in 1..(Len(a) - 1) : a[i] <= a[i + 1]

SortedArrays ==
    {a \in UNION {[1..n -> Keys] : n \in 0..MaxLen} : Ascending(a)}

InitSearch ==
    /\ NoVecs
    /\ NoBlocks
    /\ NoList
    /\ NoDfs
    /\ NoHyst
    /\ arr \in SortedArrays
    /\ target \in Targets
    /\ len = Len(arr)
    /\ bs = Called
    /\ rs = Called

BinarySearchCall ==
    /\ bs.pc = "call"
    /\ bs' = binarySearch(len)
    /\ UNCHANGED <<arr, target, len, rs, notsearch>>

BinarySearchWhile ==
    /\ bs.pc = "run"
    /\ bs' = binarySearch_while(bs, arr, target)
    /\ UNCHANGED <<arr, target, len, rs, notsearch>>

RecursiveCall ==
    /\ rs.pc = "call"
    /\ rs' = binarySearch_recursive(len)
    /\ UNCHANGED <<arr, target, len, bs, notsearch>>

RecursiveInternal ==
    /\ rs.pc = "run"
    /\ rs' = binarySearch_recursive_internal(rs, arr, target)
    /\ UNCHANGED <<arr, target, len, bs, notsearch>>

NextSearch ==
    \/ BinarySearchCall
    \/ BinarySearchWhile
    \/ RecursiveCall
    \/ RecursiveInternal

\* A function that was called goes on executing: each of the two takes
\* its next step while it has one.
SpecSearch ==
    /\ InitSearch
    /\ [][NextSearch]_vars
    /\ WF_vars(BinarySearchCall \/ BinarySearchWhile)
    /\ WF_vars(RecursiveCall \/ RecursiveInternal)

\* ------------------------------------------- the depth first search driver
\* A caller of depth_first_search: a square matrix of zeros and ones with
\* at most MaxOrder rows, the empty one included, and a start node that is
\* a row of it, or the first index past the rows, or negative.
SquareMatrices ==
    UNION {[1..n -> [1..n -> {0, 1}]] : n \in 0..MaxOrder}

InitDfs ==
    /\ NoVecs
    /\ NoBlocks
    /\ NoList
    /\ NoSearch
    /\ NoHyst
    /\ mat \in SquareMatrices
    /\ nodeIndex \in -1..Len(mat)
    /\ dfs = [pc |-> "call", ret |-> 0]

\* depth_first_search(mat, nodeIndex): vis is the default argument
DfsCall ==
    /\ dfs.pc = "call"
    /\ dfs' = [pc |-> "done", ret |-> depth_first_search(mat, nodeIndex, <<>>)]
    /\ UNCHANGED <<mat, nodeIndex, notdfs>>

NextDfs == DfsCall

SpecDfs == InitDfs /\ [][NextDfs]_vars

\* --------------------------------------------- the capacity policy driver
\* One vec, list1, constructed with a capacity and empty, or filled by
\* vec(n_elem, val), and then given add, remove and removeAt in any order,
\* MaxCalls calls at most.  call is the last call made and resized tells
\* what it did to the capacity; n_added and n_removed count the calls.
\* Brace-initialised vecs of up to MaxCap elements are among them.
\* The capacities are the small ones, the default and the ones around the
\* smallest capacity that has a shrink threshold (n_elem / 6 >= 64).
ThresholdCap == ShrinkDiv * MinShrink

Caps ==
    (0..MaxCap) \cup {DefaultCap}
        \cup ((ThresholdCap - 1)..(ThresholdCap + MaxCap))

\* vec(uint_32_cx n_elem, const T val)
vec_fill(n_elem, val) ==
    VecOf([null |-> FALSE, mem |-> [i \in 1..n_elem |-> val]],
          n_elem, n_elem, MinLenOf(n_elem))

\* vec(std::initializer_list<T> init_list), the list holding n times val:
\* len_ is twice the number of elements and the block has one slot for
\* each element.
vec_init_list(n, val) ==
    VecOf([null |-> FALSE, mem |-> [i \in 1..n |-> val]], n, n * 2, 0)

\* The vecs a constructor makes.
Constructed ==
    {vec(n) : n \in Caps}
        \cup {vec_fill(n, val) : n \in Caps, val \in Values}
        \cup {vec_init_list(n, val) : n \in 0..MaxCap, val \in Values}

InitHyst ==
    /\ \E c \in Constructed :
          vecs = [v \in Inst |-> IF v = list1 THEN c ELSE MovedFrom]
    /\ status = "ok"
    /\ call = NoCall
    /\ script = 0
    /\ n_added = 0
    /\ n_removed = 0
    /\ resized = "no"
    /\ NoBlocks
    /\ NoList
    /\ NoSearch
    /\ NoDfs

\* What a call did to the capacity.
Resized(old, new) ==
    IF new.len_ > old.len_ THEN "grew"
    ELSE IF new.len_ < old.len_ THEN "shrank"
    ELSE "no"

\* The driver makes another call.
CanCall == status = "ok" /\ n_added + n_removed < MaxCalls

\* The elements of list1 are kept equal: the value added is the one the
\* list holds already.
HystAdd(e) ==
    /\ CanCall
    /\ {get(vecs[list1], k) : k \in 0..(size(vecs[list1]) - 1)} \subseteq {e}
    /\ LET x == add(vecs[list1], e)
       IN  /\ Return(list1, x.v, x.ub, [CallOf("add", list1) EXCEPT !.val = e])
           /\ resized' = Resized(vecs[list1], x.v)
    /\ n_added' = n_added + 1
    /\ UNCHANGED <<script, n_removed, nothyst>>

\* remove is called with a value that is among the elements.
HystRemove(e) ==
    /\ CanCall
    /\ e \in {get(vecs[list1], k) : k \in 0..(size(vecs[list1]) - 1)}
    /\ LET stops == RemoveStops(MaybeShrink(vecs[list1]), e)
       IN  \E i \in stops :
              LET x == remove(vecs[list1], e, i)
              IN  /\ Return(list1, x.v, x.ub,
                            [CallOf("remove", list1) EXCEPT
                                !.val = e, !.slot = i])
                  /\ resized' = Resized(vecs[list1], x.v)
    /\ n_removed' = n_removed + 1
    /\ UNCHANGED <<script, n_added, nothyst>>

\* removeAt is called with a valid index: here the first or the last one.
HystRemoveAt(index) ==
    /\ CanCall
    /\ ULess(index, vecs[list1].size_)
    /\ LET x == removeAt(vecs[list1], index)
       IN  /\ Return(list1, x.v, x.ub,
                     [CallOf("removeAt", list1) EXCEPT !.idx = index])
           /\ resized' = Resized(vecs[list1], x.v)
    /\ n_removed' = n_removed + 1
    /\ UNCHANGED <<script, n_added, nothyst>>

NextHyst ==
    \/ \E e \in Values : HystAdd(e)
    \/ \E e \in Values : HystRemove(e)
    \/ \E index \in {0, vecs[list1].size_ - 1} : HystRemoveAt(index)

SpecHyst == InitHyst /\ [][NextHyst]_vars

\* ------------------------------------------------------------- claims
\* The live elements of a vec are the slots of its block at the indices
\* in [0, size()).
LiveSlots(r) == {i \in 0..(Alloc(r.arr_) - 1) : ULess(i, size(r))}

LiveHas(r, e) == \E i \in LiveSlots(r) : get(r, i) = e

FirstLive(r, e) ==
    CHOOSE i \in LiveSlots(r) :
        get(r, i) = e /\ \A j \in LiveSlots(r) : get(r, j) = e => i <= j

\* The block has len_ slots and every one of them has been written: a scan
\* of the slots below len_ stays in the block and compares no indeterminate
\* value.
AllWritten(r) ==
    /\ Alloc(r.arr_) = r.len_
    /\ \A i \in 0..(Alloc(r.arr_) - 1) : Load(r.arr_, i) # Indet

\* C1: in every reachable state of every vec, length (size_) <= capacity
\* (len_), both read as the unsigned integers they are.
C1_LengthWithinCapacity ==
    \A v \in Inst : ~ULess(vecs[v].len_, vecs[v].size_)

\* C2: after N calls of add on a default-constructed vec, size() is N and
\* operator[](i) is the i-th value added, for every i < N.
C2_AddsKept ==
    (script # 0 /\ n_removed = 0)
    => /\ size(vecs[list1]) = n_added
       /\ \A i \in 0..(n_added - 1) :
             get(vecs[list1], i) = ScriptValue(script, i)

\* C2's case: the adds have crossed two growth steps (64 -> 96 -> 144).
C2_Witness ==
    /\ script # 0
    /\ n_removed = 0
    /\ n_added > MulOneAndHalf(DefaultCap)
    /\ vecs[list1].len_ > MulOneAndHalf(DefaultCap)
    /\ size(vecs[list1]) = n_added

\* C3: an add called with length = capacity leaves the capacity at
\* floor(1.5 * old capacity), which is >= the new length, and every element
\* added before keeps its index and value.
C3_GrowthOnFullAdd ==
    [][(call'.op = "add" /\ vecs[call'.self].size_ = vecs[call'.self].len_)
        => LET old == vecs[call'.self]
               new == vecs'[call'.self]
           IN  /\ new.len_ = (3 * old.len_) \div 2
               /\ new.len_ >= new.size_
               /\ \A i \in 0..(old.size_ - 1) : get(new, i) = get(old, i)]_vars

\* C4: the first add on a vec of capacity 0 leaves size() = 1, a capacity
\* >= 1 and the added value at index 0.
C4_FirstAddOnCapacityZero ==
    [][(call'.op = "add" /\ vecs[call'.self].len_ = 0)
        => LET new == vecs'[call'.self]
           IN  /\ size(new) = 1
               /\ new.len_ >= 1
               /\ get(new, 0) = call'.val]_vars

\* C5: remove(value) changes nothing (length, capacity, live elements) when
\* no live element equals value -- stated for the vecs whose slots have all
\* been written, where value can only sit in a slot that an earlier remove
\* left behind.
C5_RemoveAbsentIsNoOp ==
    [][(/\ call'.op = "remove"
        /\ AllWritten(vecs[call'.self])
        /\ ~LiveHas(vecs[call'.self], call'.val))
        => LET old == vecs[call'.self]
               new == vecs'[call'.self]
           IN  /\ new.size_ = old.size_
               /\ new.len_ = old.len_
               /\ \A i \in LiveSlots(old) : get(new, i) = get(old, i)]_vars

\* C6: remove(value), when a live element equals value, removes the first
\* such element: the length drops by one, the elements before it stay and
\* the elements after it move one index down, in order.
C6_RemoveFirstOccurrence ==
    [][(call'.op = "remove" /\ LiveHas(vecs[call'.self], call'.val))
        => LET old == vecs[call'.self]
               new == vecs'[call'.self]
               k   == FirstLive(old, call'.val)
           IN  /\ status' = "ok"
               /\ size(new) = size(old) - 1
               /\ \A i \in 0..(k - 1) : get(new, i) = get(old, i)
               /\ \A j \in (k + 1)..(size(old) - 1) :
                     get(new, j - 1) = get(old, j)]_vars

\* C6's case: the middle one of three elements has been removed.
C6_Witness ==
    /\ call.op = "remove"
    /\ call.slot = 1
    /\ status = "ok"
    /\ size(vecs[call.self]) = 2

\* C7: contains(value, fromFront) returns true exactly when a live element
\* equals value, whichever the direction -- stated for the calls that read
\* no slot outside the block, on a vec whose slots have all been written.
C7_ContainsIsMembership ==
    (call.op = "contains" /\ status = "ok" /\ AllWritten(vecs[call.self]))
    => call.found = LiveHas(vecs[call.self], call.val)

\* C8: at(i) returns element i for 0 <= i < length, element length + i for
\* -length <= i < 0, and throws for every other i; it changes nothing.
C8_AtChecked ==
    [][call'.op = "at"
        => LET r == vecs[call'.self]
               i == call'.idx
           IN  /\ vecs' = vecs
               /\ status' = status
               /\ IF 0 <= i /\ i < size(r)
                  THEN ~call'.threw /\ call'.ret = get(r, i)
                  ELSE IF i < 0 /\ -size(r) <= i
                       THEN ~call'.threw /\ call'.ret = get(r, size(r) + i)
                       ELSE call'.threw]_vars

\* C8's case: at(-1) has returned the last of three elements.
C8_Witness ==
    /\ call.op = "at"
    /\ call.idx = -1
    /\ ~call.threw
    /\ size(vecs[call.self]) = 3
    /\ call.ret = get(vecs[call.self], 2)
    /\ call.ret \in Values

\* C9: append(other) leaves length = old length + other's length, other's
\* elements behind the old ones, the old ones as they were, capacity >=
\* length, and other unchanged.
C9_AppendAll ==
    [][call'.op = "append"
        => LET old == vecs[call'.self]
               new == vecs'[call'.self]
               src == vecs[call'.other]
           IN  /\ size(new) = size(old) + size(src)
               /\ \A i \in 0..(size(src) - 1) :
                     get(new, size(old) + i) = get(src, i)
               /\ \A i \in 0..(size(old) - 1) : get(new, i) = get(old, i)
               /\ new.len_ >= size(new)
               /\ call'.other # call'.self
                     => vecs'[call'.other] = vecs[call'.other]]_vars

\* C10: append(other, endExclusive, start) throws and changes nothing when
\* start >= endExclusive or endExclusive > other's length; otherwise it
\* appends other[start, endExclusive) in order.
C10_AppendRange ==
    [][call'.op = "appendRange"
        => LET old == vecs[call'.self]
               new == vecs'[call'.self]
               src == vecs[call'.other]
               e   == call'.end
               b   == call'.idx
           IN  IF b >= e \/ e > size(src)
               THEN call'.threw /\ vecs' = vecs
               ELSE /\ ~call'.threw
                    /\ size(new) = size(old) + (e - b)
                    /\ \A k \in 0..(e - b - 1) :
                          get(new, size(old) + k) = get(src, b + k)]_vars

\* C11: a copy B of A (copy construction or copy assignment) has A's length
\* and A's elements and leaves A as it was, and a following add on B stays
\* inside B's own block -- stated for the sources with free capacity
\* (size_ < len_), where that add does not have to grow.
C11_CopyIsIndependent ==
    [][(/\ call'.op \in {"copyAssign", "copyConstruct"}
        /\ call'.other # call'.self
        /\ vecs[call'.other].size_ < vecs[call'.other].len_)
        => LET a == vecs[call'.other]
               b == vecs'[call'.self]
           IN  /\ size(b) = size(a)
               /\ \A i \in 0..(size(a) - 1) : get(b, i) = get(a, i)
               /\ vecs'[call'.other] = a
               /\ \A e \in Values : ~add(b, e).ub]_vars

\* C12: after B = move(A) (move construction or move assignment) B has A's
\* block with its elements in their order, A's length, capacity and shrink
\* threshold, and A has length 0, capacity 0 and no storage.
C12_MoveTransfers ==
    [][call'.op \in {"moveAssign", "moveConstruct"}
        => LET a == vecs[call'.other]
               b == vecs'[call'.self]
               left == vecs'[call'.other]
           IN  /\ b.arr_ = a.arr_
               /\ size(b) = size(a)
               /\ \A i \in 0..(size(a) - 1) : get(b, i) = get(a, i)
               /\ b.len_ = a.len_
               /\ b.minlen_ = a.minlen_
               /\ size(left) = 0
               /\ left.len_ = 0
               /\ left.arr_.null]_vars

\* C12's case: list1 has taken over the two elements of list2.
C12_Witness ==
    /\ call.op \in {"moveAssign", "moveConstruct"}
    /\ size(vecs[call.self]) = 2
    /\ get(vecs[call.self], 0) = OtherValue(0)
    /\ get(vecs[call.self], 1) = OtherValue(1)
    /\ vecs[call.other].arr_.null
    /\ size(vecs[call.other]) = 0

\* C13: every block that new[] returned is pointed at by at most one live
\* vec, no block is released twice, a live vec points at no released block,
\* and every block not yet released belongs to a live vec (so that none is
\* left once all vecs are destroyed).
C13_ExclusiveOwnership ==
    /\ \A b \in 1..MaxBlocks : blocks[b] # "released twice"
    /\ \A v \in Inst, w \in Inst :
          (alive[v] /\ alive[w] /\ v # w /\ ptr[v] # 0) => ptr[v] # ptr[w]
    /\ \A v \in Inst :
          (alive[v] /\ ptr[v] # 0) => blocks[ptr[v]] = "held"
    /\ \A b \in 1..MaxBlocks :
          blocks[b] = "held" => \E v \in Inst : alive[v] /\ ptr[v] = b

\* C13's case: after moves, copies and reallocations every vec is destroyed
\* and every block has been released once.
C13_Witness ==
    /\ \A v \in Inst : ~alive[v]
    /\ \A b \in 1..MaxBlocks : blocks[b] = "released"
    /\ \E v \in Inst : ptr[v] = 0

C15_ShrinkTrigger ==
    [][(/\ call'.op \in {"remove", "removeAt"}
        /\ vecs[call'.self].len_ \div ShrinkDiv >= MinShrink
        /\ vecs[call'.self].size_ < vecs[call'.self].len_ \div ShrinkDiv)
        => LET old == vecs[call'.self]
               new == vecs'[call'.self]
               k   == IF call'.op = "remove" THEN call'.slot ELSE call'.idx
           IN  /\ new.len_ = old.len_ \div 2
               /\ \A i \in 0..(size(new) - 1) :
                     get(new, i) = get(old, IF i < k THEN i ELSE i + 1)]_vars

\* C16: removeAt(index) with 0 <= index < length leaves the old sequence
\* with position index deleted: length one less, the elements below index
\* where they were, each element above index one index down.
C16_RemoveAtDeletes ==
    [][call'.op = "removeAt"
        => LET old == vecs[call'.self]
               new == vecs'[call'.self]
               k   == call'.idx
           IN  /\ status' = "ok"
               /\ size(new) = size(old) - 1
               /\ \A i \in 0..(k - 1) : get(new, i) = get(old, i)
               /\ \A j \in (k + 1)..(size(old) - 1) :
                     get(new, j - 1) = get(old, j)]_vars

\* C16's case: removeAt(1) on three elements, leaving the first and the
\* third.
C16_Witness ==
    /\ call.op = "removeAt"
    /\ call.idx = 1
    /\ status = "ok"
    /\ size(vecs[call.self]) = 2
    /\ get(vecs[call.self], 0) # get(vecs[call.self], 1)

\* C17: removeAt(index) with index < size() returns the value stored at
\* position index, deletes exactly the node at that position, decrements
\* size by one and keeps the other elements in their order; after the
\* only element was removed, size() == 0 and begin() == end().
C17_RemoveAtUnlinks ==
    [][(/\ lcall'.op = "removeAt"
        /\ ULess(lcall'.arg, lst.size_))
        => LET index == lcall'.arg
               old == ChainFrom(heap, lst.head_)
               new == ChainFrom(heap', lst'.head_)
           IN  /\ lstatus' = "ok"
               /\ index < Len(old)
               /\ lcall'.ret = heap[old[index + 1]].val_
               /\ \A n \in NodeIds :
                      heap'[n].mem = IF n = old[index + 1] THEN "deleted"
                                     ELSE heap[n].mem
               /\ lst'.size_ = lst.size_ - 1
               /\ new = [i \in 1..(Len(old) - 1) |->
                             old[IF i <= index THEN i ELSE i + 1]]
               /\ \A i \in 1..Len(new) : heap'[new[i]].val_ = heap[new[i]].val_
               /\ (lst.size_ = 1 => size(lst') = 0 /\ BeginIsEnd(lst'))]_vars

\* C18: pop() on a non-empty list trips no assertion and removes exactly
\* the last element: size decreases by one, the node that was last is
\* deleted and the elements before it stay, so that the last element is
\* the one pushed before it; pop() on an empty list is reported as an
\* error (the call does not return normally) and leaves size as it was.
C18_PopRemovesLast ==
    [][lcall'.op = "pop"
        => LET old == ChainFrom(heap, lst.head_)
               new == ChainFrom(heap', lst'.head_)
           IN  IF ~BeginIsEnd(lst)
               THEN /\ lstatus' = "ok"
                    /\ size(lst') = size(lst) - 1
                    /\ new = SubSeq(old, 1, Len(old) - 1)
                    /\ \A i \in 1..Len(new) : heap'[new[i]].val_ = heap[new[i]].val_
                    /\ heap'[old[Len(old)]].mem = "deleted"
                    /\ (new # <<>> => lst'.end_ = new[Len(new)])
               ELSE /\ lstatus' # "ok"
                    /\ size(lst') = size(lst)]_vars

\* C19: removeAt(0) on an empty list ends in an exception the caller can
\* catch (std::out_of_range), not in abort() and not in undefined
\* behaviour, and the list is still empty: size() == 0, begin() == end().
C19_RemoveAtEmptyThrows ==
    [][(/\ lcall'.op = "removeAt"
        /\ lcall'.arg = 0
        /\ size(lst) = 0
        /\ BeginIsEnd(lst))
        => /\ lstatus' = "threw"
           /\ size(lst') = 0
           /\ BeginIsEnd(lst')]_vars

\* The target occurs in arr[0..len).
Occurs == \E i \in 0..(len - 1) : ArrAt(arr, i) = target

\* C20: on every ascending array of length len >= 0 and for every target,
\* binarySearch(arr, target, len) terminates and returns true exactly when
\* the target occurs in arr[0..len), and binarySearch_recursive terminates
\* and returns the same result for the same inputs.
C20_BinarySearch ==
    /\ <>(bs.pc = "done" /\ rs.pc = "done")
    /\ [](bs.pc = "done" => bs.ret = Occurs)
    /\ []((bs.pc = "done" /\ rs.pc = "done") => rs.ret = bs.ret)

\* Both searches have found a target that the first probe missed.
C20_Witness ==
    /\ bs.pc = "done"
    /\ rs.pc = "done"
    /\ bs.ret
    /\ rs.ret
    /\ rs.depth >= 2
    /\ len >= 3

\* The nodes of the graph a matrix describes, and the nodes an edge leads
\* to from a node of S.
NodesOf(m) == 0..(Len(m) - 1)

Successors(m, S) == {j \in NodesOf(m) : \E i \in S : m[i + 1][j + 1] = 1}

\* S and every node a path leads to from a node of S.
RECURSIVE ReachableFrom(_, _)
ReachableFrom(m, S) ==
    IF Successors(m, S) \subseteq S THEN S
    ELSE ReachableFrom(m, S \cup Successors(m, S))

\* C21: depth_first_search(mat, nodeIndex) on a square matrix of zeros and
\* ones returns the number of nodes reachable from nodeIndex, each counted
\* once -- the start node itself counted as reached, or only the nodes a
\* path of at least one edge leads to: either count is accepted -- and it
\* returns 0 when the matrix is empty or nodeIndex is no node of it.
C21_DfsCountsReachable ==
    dfs.pc = "done"
        => IF mat = <<>> \/ nodeIndex \notin NodesOf(mat)
           THEN dfs.ret = 0
           ELSE dfs.ret \in
                    {Cardinality(ReachableFrom(mat, {nodeIndex})),
                     Cardinality(ReachableFrom(mat, Successors(mat, {nodeIndex})))}

\* C22: after construction with an initial capacity, and after every call
\* of add, remove, removeAt or append in which grow() or shrink() changed
\* the capacity, minlen_ is capacity / 6 when that quotient is >= 64 and 0
\* otherwise, for the capacity len_ the vec has then.
C22_ShrinkThreshold ==
    /\ \A v \in Inst : vecs[v].minlen_ = MinLenOf(vecs[v].len_)
    /\ [][\A v \in Inst :
            (/\ call'.op \in {"add", "remove", "removeAt", "append", "appendRange"}
             /\ call'.self = v
             /\ vecs'[v].len_ # vecs[v].len_)
            => vecs'[v].minlen_ = MinLenOf(vecs'[v].len_)]_vars

\* C23: a remove or removeAt entered with length < minlen_ first halves
\* the capacity (floor of the old capacity / 2); the new capacity is at
\* least the length, the storage has that many slots and nothing is
\* written outside it, and the live elements other than the removed one
\* keep their values and order.  Entered with length >= minlen_, the
\* removal leaves the capacity as it was.
C23_ShrinkStep ==
    [][call'.op \in {"remove", "removeAt"}
        => LET old == vecs[call'.self]
               new == vecs'[call'.self]
               k   == IF call'.op = "remove" THEN call'.slot ELSE call'.idx
           IN  IF ULess(old.size_, old.minlen_)
               THEN /\ new.len_ = old.len_ \div 2
                    /\ new.len_ >= old.size_
                    /\ Len(new.arr_.mem) = new.len_
                    /\ status' = "ok"
                    /\ \A i \in 0..(size(new) - 1) :
                          get(new, i)
                              = get(old, IF k < 0 \/ i < k THEN i ELSE i + 1)
               ELSE new.len_ = old.len_]_vars

\* C23's case: a removal has halved the capacity 729 of the scripted run,
\* entered with 80 elements.
C23_Witness ==
    /\ call.op \in {"remove", "removeAt"}
    /\ status = "ok"
    /\ vecs[call.self].len_ = 364
    /\ size(vecs[call.self]) = 79

\* C24: after the copy construction B(A), the capacity of B is the
\* capacity of A; after the copy assignment B = A of another vec A, the
\* storage of B has exactly as many slots as A has live elements, and the
\* capacity of B is that same number.
C24_CopyCapacity ==
    [][/\ call'.op = "copyConstruct"
            => vecs'[call'.self].len_ = vecs[call'.other].len_
       /\ (call'.op = "copyAssign" /\ call'.self # call'.other)
            => /\ Len(vecs'[call'.self].arr_.mem) = size(vecs[call'.other])
               /\ vecs'[call'.self].len_ = size(vecs[call'.other])]_vars

\* C25  Capacity hysteresis: in a sequence of add and remove/removeAt calls,
\* the removal that immediately follows an add that grew the capacity does
\* not shrink it, and the add that immediately follows a removal that
\* shrank the capacity does not grow it.
C25_Hysteresis ==
    [][/\ (/\ call.op = "add" /\ resized = "grew"
           /\ call'.op \in {"remove", "removeAt"}) => resized' # "shrank"
       /\ (/\ call.op \in {"remove", "removeAt"} /\ resized = "shrank"
           /\ call'.op = "add") => resized' # "grew"]_vars

\* An add has returned on the capacity that only the halving of the
\* threshold capacity produces: the add followed a removal that shrank.
C25_Witness ==
    /\ status = "ok"
    /\ call.op = "add"
    /\ vecs[list1].len_ = ThresholdCap \div 2
    /\ n_removed > 0

\* C26  Termination of append: for every capacity of the destination (0 and
\* 1 included) and every non-empty source, the growth loop of append(other)
\* and of the range append ends, and the call returns with room for the
\* appended elements: no append is caught in its loop.
C26_AppendTerminates ==
    ~(status = "hung" /\ call.op = "hung")

\* C27  The recorded capacity matches the allocation: in every state of the
\* program whose behaviour is defined, every vec that has storage has a
\* block of exactly len_ slots (so that a write of slot size_ < len_ is a
\* write inside the block); this holds after every constructor, copy
\* assignment, grow, shrink and clear.
C27_CapacityIsAllocation ==
    status = "ok"
        => \A v \in Inst :
              ~vecs[v].arr_.null => Alloc(vecs[v].arr_) = vecs[v].len_

\* size_ is the number of nodes reachable from head_, end_ is the last of
\* them and is null exactly when head_ is, and the chain ends in nullptr.
WellFormed(l, h) ==
    LET c == ChainFrom(h, l.head_)
    IN  /\ l.size_ = Len(c)
        /\ (l.end_ = NullNode) <=> (l.head_ = NullNode)
        /\ (l.head_ = NullNode) \/ Valid(h, l.head_)
        /\ (Len(c) > 0) => (l.end_ = c[Len(c)] /\ h[l.end_].next_ = NullNode)

\* sq without its i-th element; sq itself when it has no i-th element.
Without(sq, i) ==
    IF i \in 1..Len(sq)
    THEN [k \in 1..(Len(sq) - 1) |-> sq[IF k < i THEN k ELSE k + 1]]
    ELSE sq

\* The position of the first val in sq, 0 when there is none.
FirstOf(sq, val) ==
    IF \E k \in 1..Len(sq) : sq[k] = val
    THEN CHOOSE k \in 1..Len(sq) :
            sq[k] = val /\ \A j \in 1..(k - 1) : sq[j] # val
    ELSE 0

\* The call made is one of: push, removeAt with index < size, remove,
\* pop on a non-empty list, clear, copy construction, copy assignment.
ListedCall ==
    \/ lcall'.op \in {"push", "remove", "clear", "copyConstruct",
                      "copyAssign", "assignBack"}
    \/ lcall'.op = "removeAt" /\ ULess(lcall'.arg, lst.size_)
    \/ lcall'.op = "pop" /\ ~BeginIsEnd(lst)

\* What iteration yields after the call: the elements that remain, in the
\* order of their pushes; the list the call was not made on yields what it
\* yielded before.
RemainingInOrder ==
    LET old1 == ValuesOf(lst, heap)
        old2 == ValuesOf(lst2, heap)
        new1 == ValuesOf(lst', heap')
        new2 == ValuesOf(lst2', heap')
        op == lcall'.op
        arg == lcall'.arg
    IN  /\ new1 = CASE op = "push" -> Append(old1, arg)
                     [] op = "removeAt" -> Without(old1, arg + 1)
                     [] op = "remove" -> Without(old1, FirstOf(old1, arg))
                     [] op = "pop" -> Without(old1, Len(old1))
                     [] op = "clear" -> <<>>
                     [] op = "assignBack" -> old2
                     [] OTHER -> old1
        /\ new2 = IF op \in {"copyConstruct", "copyAssign"} THEN old1
                  ELSE old2

\* C28  The structure of a LinkedList: after any sequence of push, removeAt
\* with index < size, remove(value), pop on a non-empty list, clear and copy
\* construction or assignment, size_ is the number of nodes reachable from
\* head_, end_ is the last node of that chain (null exactly when head_ is
\* null) and iteration from begin() yields the remaining elements in push
\* order.  Stated for each call of such a sequence: made on well-formed
\* lists, it does not run into undefined behaviour, and when it returns the
\* lists are well-formed and hold the remaining elements in order.  (A call
\* that ends in abort() ends the sequence.)
C28_ListStructure ==
    [][(/\ lstatus = "ok"
        /\ WellFormed(lst, heap)
        /\ WellFormed(lst2, heap)
        /\ ListedCall)
        => /\ lstatus' # "ub"
           /\ (lstatus' = "ok")
                 => /\ WellFormed(lst', heap')
                    /\ WellFormed(lst2', heap')
                    /\ RemainingInOrder]_vars

====
